---- MODULE Spec2Model ----
(***************************************************************************)
(* The concurrent fetch / cache / retry pipeline of novelbin:              *)
(*   scraper.py  AsyncScraper._fetch_url, fetch_chapter_content,           *)
(*               clear_cache_for_url                                       *)
(*   main.py     download_workflow (fetch_with_progress, gather, the       *)
(*               partition of the results, the safety stop, create_epub    *)
(*               and the cache clean-up), check_updates                    *)
(*   library.py  LibraryManager.add_novel                                  *)
(*   utils.py    parse_chapter_selection                                   *)
(* One asyncio task per selected chapter; a step of the model is the code  *)
(* a task runs between two of its suspension points (await).               *)
(***************************************************************************)
EXTENDS Integers, Sequences, FiniteSets, TLC

\* ---------------------------------------------------------------- bounds
\* Number of chapters of the novel (len(chapters)).
NumChapters == 2
\* How many times download_workflow is run one after the other.
MaxRuns == 2
\* Size of the permit pool. config.py sets it to 5; it is checked at sizes
\* below the batch size, so that batches larger than the pool (M > N) are
\* explored.
MAX_CONCURRENT_REQUESTS == 1
\* Longest selection string typed at the prompt.
MaxLen == 3

\* ------------------------------------------------------ program constants
MAX_RETRIES == 3
RETRY_DELAY == 2

\* -------------------------------------------------------------- values
\* Optional[str]: the None of fetch_chapter_content / _fetch_url.
None == "None"
\* Response bodies session.get can deliver with a 2xx status.
EmptyBody == ""
PageNoTag == "<html>no content tag</html>"
PageWithContent == "<html><div id=chr-content>text</div></html>"
\* What a single session.get ends in: a 2xx with one of the bodies, a 429,
\* a RequestsError / timeout (raise_for_status included), another exception.
Responses == {"200", "200_notag", "200_empty", "429", "neterr", "fatal"}

\* response.text of a 2xx response.
BodyOf(r) ==
    IF r = "200" THEN PageWithContent
    ELSE IF r = "200_notag" THEN PageNoTag
    ELSE EmptyBody

\* A selector that matches nothing on any page.
select_nothing(html) == None

\* soup.select_one("#chr-content, ...") followed by decode_contents():
\* the extracted fragment, or None when no content tag is found.
select_content(html) ==
    IF html = PageWithContent THEN "text" ELSE None

\* The chapter list extract_metadata returns: {name, url} per chapter,
\* unique by url.
chapters == [c \in 1..NumChapters |-> [name |-> c, url |-> c]]
Urls == {chapters[c].url : c \in 1..NumChapters}
Pos == 1..NumChapters

\* A cache directory without a file for the url.
NoEntry == "NoEntry"
\* What open(cache_path, "w") followed by an unfinished write leaves on
\* disk: the empty file, or a prefix of the fragment.
TruncatedFiles == {"", "te"}

\* selection_indices: strictly increasing lists of 0-based indices
\* (parse_chapter_selection's sorted set, or a range).
RECURSIVE SortedSeq(_)
SortedSeq(S) ==
    IF S = {} THEN <<>>
    ELSE LET m == CHOOSE x \in S : \A y \in S : x <= y
         IN <<m>> \o SortedSeq(S \ {m})
Selections == {SortedSeq(S) : S \in SUBSET (0..NumChapters - 1)}

\* The characters of a selection string: decimal digits, the range sign,
\* the separator, white space, a letter, and a superscript two, for which
\* str.isdigit() is true and which int() does not accept.
Digits == {"0", "1", "2", "3"}
Superscript == "sup2"
Chars == Digits \cup {"-", ",", " ", "x", Superscript}
\* The selection strings, as sequences of characters.
SelectionStrings == UNION {[1..n -> Chars] : n \in 0..MaxLen}

\* str.strip().
RECURSIVE lstrip(_)
lstrip(str) ==
    IF str = <<>> \/ Head(str) # " " THEN str ELSE lstrip(Tail(str))
RECURSIVE rstrip(_)
rstrip(str) ==
    IF str = <<>> \/ str[Len(str)] # " " THEN str
    ELSE rstrip(SubSeq(str, 1, Len(str) - 1))
strip(str) == rstrip(lstrip(str))

\* str.find(c) counted from 1; 0 when c is not in str.
find(str, c) ==
    IF \E k \in 1..Len(str) : str[k] = c
    THEN CHOOSE k \in 1..Len(str) :
             str[k] = c /\ \A j \in 1..(k - 1) : str[j] # c
    ELSE 0

\* str.split(sep): the parts between the separators, empty ones included.
RECURSIVE split(_, _)
split(str, sep) ==
    LET k == find(str, sep)
    IN IF k = 0 THEN <<str>>
       ELSE <<SubSeq(str, 1, k - 1)>> \o split(SubSeq(str, k + 1, Len(str)), sep)

\* str.isdigit(): not empty, and every character is a digit character.
isdigit(str) ==
    /\ str # <<>>
    /\ \A k \in 1..Len(str) : str[k] \in Digits \cup {Superscript}

\* int(str): white space around, an optional sign, then decimal digits.
\* IntParses is false where int() raises ValueError.
Unsigned(str) ==
    LET t == strip(str)
    IN IF t # <<>> /\ Head(t) = "-" THEN Tail(t) ELSE t
IntParses(str) ==
    /\ Unsigned(str) # <<>>
    /\ \A k \in 1..Len(Unsigned(str)) : Unsigned(str)[k] \in Digits
DigitValue(c) == CASE c = "0" -> 0 [] c = "1" -> 1 [] c = "2" -> 2 [] c = "3" -> 3
RECURSIVE Decimal(_)
Decimal(d) ==
    IF d = <<>> THEN 0
    ELSE 10 * Decimal(SubSeq(d, 1, Len(d) - 1)) + DigitValue(d[Len(d)])
int(str) ==
    LET t == strip(str)
    IN IF t # <<>> /\ Head(t) = "-" THEN 0 - Decimal(Tail(t)) ELSE Decimal(t)

\* parse_chapter_selection, lines 29-32: the part passes isdigit() and
\* int(part), outside any try, raises ValueError.
PartRaises(part) ==
    LET p == strip(part)
    IN find(p, "-") = 0 /\ isdigit(p) /\ ~IntParses(p)

\* parse_chapter_selection, lines 19-32: the indices one part adds.
PartIndices(part, total_chapters) ==
    LET p == strip(part)
        k == find(p, "-")
    IN IF k # 0
       THEN LET start == SubSeq(p, 1, k - 1)
                end == SubSeq(p, k + 1, Len(p))
            IN IF IntParses(start) /\ IntParses(end)
               THEN {i \in (int(start) - 1)..(int(end) - 1) :
                        0 <= i /\ i < total_chapters}
               ELSE {}
       ELSE IF isdigit(p) /\ IntParses(p)
            THEN {i \in {int(p) - 1} : 0 <= i /\ i < total_chapters}
            ELSE {}

\* parse_chapter_selection, lines 11-35: the list it returns, or the
\* ValueError that leaves it.
parse_chapter_selection(selection, total_chapters) ==
    IF strip(selection) = <<>>
    THEN [raised |-> FALSE,
          indices |-> [k \in 1..total_chapters |-> k - 1]]
    ELSE LET parts == split(selection, ",")
         IN IF \E k \in 1..Len(parts) : PartRaises(parts[k])
            THEN [raised |-> TRUE, indices |-> <<>>]
            ELSE [raised |-> FALSE,
                  indices |-> SortedSeq(UNION {PartIndices(parts[k],
                                                           total_chapters) :
                                                  k \in 1..Len(parts)})]

\* No selection has been asked for.
NotAsked == [selection |-> <<>>, total |-> 0, out |-> <<>>]

VARIABLES
    cache,              \* url -> cached fragment, or NoEntry
    runs,               \* download_workflow calls started so far
    mainpc,             \* where download_workflow is
    selected_chapters,  \* main.py:32
    pc,                 \* position -> where the task of that position is
    attempt,            \* position -> loop variable of _fetch_url
    permits,            \* self.semaphore._value
    holding,            \* position -> inside "async with self.semaphore"
    gets,               \* position -> session.get calls issued by the task
    outcomes,           \* position -> what each attempt ended in
    sleeps,             \* position -> the delays passed to asyncio.sleep
    fetched,            \* position -> what _fetch_url returned
    results,            \* position -> <<>> (None) or <<{title, content}>>
    completed_count,    \* main.py:41
    progress,           \* the <<completed_count, total>> pairs line 49 printed
    finish_order,       \* the positions in the order their tasks finished,
                        \* kept while .on
    downloaded_data,    \* main.py:62
    failed_chapters,    \* main.py:63
    epub_args,          \* <<>> or <<the chapter list create_epub was given>>
    epub_raised,        \* create_epub raised
    evicted,            \* urls clear_cache_for_url was called for in this run
    cache_at_join,      \* the cache as gather returned
    prev,               \* the run before: its outcome, selection, failures
    library,            \* library.py: the favorite's stored last_count, and
                        \* where check_updates stands with it
    parse               \* the call parse_chapter_selection(selection, total)
                        \* of main.py:28 and what it gave, once made

vars == <<cache, runs, mainpc, selected_chapters, pc, attempt, permits,
          holding, gets, outcomes, sleeps, fetched, results, completed_count,
          progress, finish_order,
          downloaded_data, failed_chapters, epub_args, epub_raised, evicted,
          cache_at_join, prev, library, parse>>

taskVars == <<pc, attempt, permits, holding, gets, outcomes, sleeps, fetched,
              results, completed_count, progress, finish_order>>
mainVars == <<runs, mainpc, selected_chapters, downloaded_data,
              failed_chapters, epub_args, epub_raised, evicted, cache_at_join,
              prev, library, parse>>

Tasks == 1..Len(selected_chapters)

\* The cache directories the program can find when it starts: for each url
\* no file, or the fragment an earlier session wrote.
CacheDirs == [Urls -> {NoEntry, "text"}]

\* AsyncScraper.__init__ and the state before the first download_workflow,
\* with `lc` the favorite's stored chapter count, `files` the cache
\* directory found on disk and `tracing` whether the order in which the
\* tasks finish is kept, and `asked` the selection the user is about to
\* give.
InitState(lc, files, tracing, asked) ==
    /\ library = [last_count |-> lc, status |-> "idle"]
    /\ parse = asked
    /\ cache = files
    /\ finish_order = [on |-> tracing, seq |-> <<>>]
    /\ runs = 0
    /\ mainpc = "idle"
    /\ selected_chapters = <<>>
    /\ pc = [i \in Pos |-> "unused"]
    /\ attempt = [i \in Pos |-> 0]
    /\ permits = MAX_CONCURRENT_REQUESTS
    /\ holding = [i \in Pos |-> FALSE]
    /\ gets = [i \in Pos |-> 0]
    /\ outcomes = [i \in Pos |-> <<>>]
    /\ sleeps = [i \in Pos |-> <<>>]
    /\ fetched = [i \in Pos |-> "pending"]
    /\ results = [i \in Pos |-> <<>>]
    /\ completed_count = 0
    /\ progress = <<>>
    /\ downloaded_data = <<>>
    /\ failed_chapters = <<>>
    /\ epub_args = <<>>
    /\ epub_raised = FALSE
    /\ evicted = {}
    /\ cache_at_join = cache
    /\ prev = [outcome |-> "none", selected |-> <<>>, failed |-> {}, net |-> {}]

\* search_mode: the novel is not a favorite that is being updated.
Init == InitState(0, [u \in Urls |-> NoEntry], FALSE, NotAsked)

\* Where one download_workflow call has returned.
Returned == {"idle", "noselection", "halted", "completed", "pkgfailed",
             "crashed", "interrupted"}

\* The chapters whose task ended without content, by position.
FailedPositions == {i \in Tasks : pc[i] = "done" /\ results[i] = <<>>}

\* What the next run is told about this one.
Summary ==
    [outcome |-> mainpc,
     selected |-> selected_chapters,
     failed |-> {selected_chapters[i].url : i \in FailedPositions},
     net |-> {selected_chapters[i].url : i \in {j \in Tasks : gets[j] > 0}}]

\* download_workflow, line 32.
Select(indices) == [k \in 1..Len(indices) |-> chapters[indices[k] + 1]]

\* download_workflow, lines 25-58: the selection, and the tasks handed to
\* asyncio.gather.
BeginBatch(indices) ==
    /\ mainpc \in Returned
    /\ runs < MaxRuns
    /\ runs' = runs + 1
    /\ prev' = Summary
    /\ LET sel == Select(indices)
       IN /\ selected_chapters' = sel
          /\ mainpc' = IF sel = <<>> THEN "noselection" ELSE "gather"
          /\ pc' = [i \in Pos |-> IF i <= Len(sel) THEN "start" ELSE "unused"]
    /\ attempt' = [i \in Pos |-> 0]
    /\ holding' = [i \in Pos |-> FALSE]
    /\ gets' = [i \in Pos |-> 0]
    /\ outcomes' = [i \in Pos |-> <<>>]
    /\ sleeps' = [i \in Pos |-> <<>>]
    /\ fetched' = [i \in Pos |-> "pending"]
    /\ results' = [i \in Pos |-> <<>>]
    /\ completed_count' = 0
    /\ progress' = <<>>
    /\ finish_order' = [finish_order EXCEPT !.seq = <<>>]
    /\ downloaded_data' = <<>>
    /\ failed_chapters' = <<>>
    /\ epub_args' = <<>>
    /\ epub_raised' = FALSE
    /\ evicted' = {}
    /\ cache_at_join' = cache
    /\ UNCHANGED <<cache, permits>>

\* search_mode, lines 236-238: download_workflow asks for the selection.
\* The first run takes any selection; the runs after it are re-runs of the
\* same batch.
StartBatch(indices) ==
    /\ mainpc # "idle" => Select(indices) = selected_chapters
    /\ BeginBatch(indices)
    /\ UNCHANGED <<library, parse>>

\* A count that goes up only for the chapters that have content.
FinishCountsSuccesses(i, content) ==
    /\ pc' = [pc EXCEPT ![i] = "done"]
    /\ completed_count' = IF content = None THEN completed_count
                          ELSE completed_count + 1
    /\ progress' = Append(progress,
                          <<completed_count', Len(selected_chapters)>>)
    /\ finish_order' = IF finish_order.on
                       THEN [finish_order EXCEPT !.seq = Append(@, i)]
                       ELSE finish_order
    /\ results' = [results EXCEPT ![i] =
           IF content = None THEN <<>>
           ELSE <<[title |-> selected_chapters[i].name, content |-> content]>>]

\* Results collected in the order the tasks finish (as asyncio.as_completed
\* would give them) instead of by position.
FinishAsCompleted(i, content) ==
    /\ pc' = [pc EXCEPT ![i] = "done"]
    /\ completed_count' = completed_count + 1
    /\ progress' = Append(progress,
                          <<completed_count + 1, Len(selected_chapters)>>)
    /\ finish_order' = IF finish_order.on
                       THEN [finish_order EXCEPT !.seq = Append(@, i)]
                       ELSE finish_order
    /\ results' = [results EXCEPT ![completed_count + 1] =
           IF content = None THEN <<>>
           ELSE <<[title |-> selected_chapters[i].name, content |-> content]>>]

\* fetch_with_progress, lines 46-54, once fetch_chapter_content returned
\* `content`: the count goes up, the progress line is printed and the
\* task's result takes its place in the list gather returns.
Finish(i, content) ==
    /\ pc' = [pc EXCEPT ![i] = "done"]
    /\ completed_count' = completed_count + 1
    /\ progress' = Append(progress,
                          <<completed_count + 1, Len(selected_chapters)>>)
    /\ finish_order' = IF finish_order.on
                       THEN [finish_order EXCEPT !.seq = Append(@, i)]
                       ELSE finish_order
    /\ results' = [results EXCEPT ![i] =
           IF content = None THEN <<>>
           ELSE <<[title |-> selected_chapters[i].name, content |-> content]>>]

\* A cache check placed inside the semaphore block: a hit needs a free
\* permit.
CheckCacheUnderPermit(i) ==
    /\ mainpc = "gather"
    /\ pc[i] = "start"
    /\ LET u == selected_chapters[i].url
       IN IF cache[u] # NoEntry
          THEN /\ permits > 0
               /\ Finish(i, cache[u])
               /\ UNCHANGED <<attempt, permits, holding, gets, outcomes,
                              sleeps, fetched>>
          ELSE /\ pc' = [pc EXCEPT ![i] = "acquire"]
               /\ UNCHANGED <<attempt, permits, holding, gets, outcomes,
                              sleeps, fetched, results, completed_count,
                              progress, finish_order>>
    /\ UNCHANGED <<cache, mainVars>>

\* fetch_chapter_content, lines 178-186: the cache check. A hit returns the
\* file's text; a miss enters _fetch_url and asks for a permit.
CheckCache(i) ==
    /\ mainpc = "gather"
    /\ pc[i] = "start"
    /\ LET u == selected_chapters[i].url
       IN IF cache[u] # NoEntry
          THEN /\ Finish(i, cache[u])
               /\ UNCHANGED <<attempt, permits, holding, gets, outcomes,
                              sleeps, fetched>>
          ELSE /\ pc' = [pc EXCEPT ![i] = "acquire"]
               /\ UNCHANGED <<attempt, permits, holding, gets, outcomes,
                              sleeps, fetched, results, completed_count,
                              progress, finish_order>>
    /\ UNCHANGED <<cache, mainVars>>

\* session.get issued without waiting for a permit.
AcquireUnguarded(i) ==
    /\ mainpc = "gather"
    /\ pc[i] = "acquire"
    /\ permits' = permits - 1
    /\ holding' = [holding EXCEPT ![i] = TRUE]
    /\ gets' = [gets EXCEPT ![i] = @ + 1]
    /\ pc' = [pc EXCEPT ![i] = "get"]
    /\ UNCHANGED <<attempt, outcomes, sleeps, fetched, results,
                   completed_count, progress, finish_order, cache, mainVars>>

\* _fetch_url, lines 39-41: "async with self.semaphore" is entered and
\* session.get is issued.
Acquire(i) ==
    /\ mainpc = "gather"
    /\ pc[i] = "acquire"
    /\ permits > 0
    /\ permits' = permits - 1
    /\ holding' = [holding EXCEPT ![i] = TRUE]
    /\ gets' = [gets EXCEPT ![i] = @ + 1]
    /\ pc' = [pc EXCEPT ![i] = "get"]
    /\ UNCHANGED <<attempt, outcomes, sleeps, fetched, results,
                   completed_count, progress, finish_order, cache, mainVars>>

\* A retry loop that runs one pass too many.
NextAttemptOneMore(i) ==
    /\ attempt' = [attempt EXCEPT ![i] = @ + 1]
    /\ IF attempt[i] + 1 <= MAX_RETRIES
       THEN /\ pc' = [pc EXCEPT ![i] = "acquire"]
            /\ UNCHANGED <<fetched, results, completed_count, progress,
                           finish_order>>
       ELSE /\ fetched' = [fetched EXCEPT ![i] = None]
            /\ Finish(i, None)

\* The end of one pass of the retry loop without a return: the next value
\* of `attempt`, or the fall out of the loop at line 63.
NextAttempt(i) ==
    /\ attempt' = [attempt EXCEPT ![i] = @ + 1]
    /\ IF attempt[i] + 1 < MAX_RETRIES
       THEN /\ pc' = [pc EXCEPT ![i] = "acquire"]
            /\ UNCHANGED <<fetched, results, completed_count, progress,
                           finish_order>>
       ELSE /\ fetched' = [fetched EXCEPT ![i] = None]
            /\ Finish(i, None)

\* A rate-limit sleep of the fixed delay.
RateLimitDelayFlat(att) == RETRY_DELAY

\* _fetch_url, line 46: the delay of the sleep after a 429 on the pass
\* whose loop variable is att (counted from 0).
RateLimitDelay(att) == RETRY_DELAY * (att + 1)

\* A fatal error handled like a network error: a sleep and one more pass.
FatalErrorRetried(i) ==
    /\ permits' = permits + 1
    /\ holding' = [holding EXCEPT ![i] = FALSE]
    /\ sleeps' = [sleeps EXCEPT ![i] = Append(@, RETRY_DELAY)]
    /\ pc' = [pc EXCEPT ![i] = "sleepErr"]
    /\ UNCHANGED <<attempt, fetched, results, completed_count, progress,
                   finish_order>>

\* _fetch_url, lines 59-61: "except Exception" is reached once the
\* "async with" block is left; the call returns None.
FatalError(i) ==
    /\ permits' = permits + 1
    /\ holding' = [holding EXCEPT ![i] = FALSE]
    /\ fetched' = [fetched EXCEPT ![i] = None]
    /\ Finish(i, None)
    /\ UNCHANGED <<attempt, sleeps>>

\* A network error whose handler runs with the permit still held.
NetworkErrorKeepsPermit(i) ==
    /\ sleeps' = [sleeps EXCEPT ![i] = Append(@, RETRY_DELAY)]
    /\ pc' = [pc EXCEPT ![i] = "sleepErr"]
    /\ UNCHANGED <<permits, holding, attempt, fetched, results,
                   completed_count, progress, finish_order>>

\* _fetch_url, lines 54-58: RequestsError or asyncio.TimeoutError leaves
\* the "async with" block, then the sleep of RETRY_DELAY starts.
NetworkError(i) ==
    /\ permits' = permits + 1
    /\ holding' = [holding EXCEPT ![i] = FALSE]
    /\ sleeps' = [sleeps EXCEPT ![i] = Append(@, RETRY_DELAY)]
    /\ pc' = [pc EXCEPT ![i] = "sleepErr"]
    /\ UNCHANGED <<attempt, fetched, results, completed_count, progress,
                   finish_order>>

\* _fetch_url, lines 41-61: session.get is answered.
Respond(i, r) ==
    /\ mainpc = "gather"
    /\ pc[i] = "get"
    /\ outcomes' = [outcomes EXCEPT ![i] = Append(@, r)]
    /\ CASE r = "429" ->
            \* line 46: the sleep is awaited inside the "async with" block
            /\ sleeps' = [sleeps EXCEPT ![i] =
                              Append(@, RateLimitDelay(attempt[i]))]
            /\ pc' = [pc EXCEPT ![i] = "sleep429"]
            /\ UNCHANGED <<permits, holding, attempt, fetched, results,
                           completed_count, progress, finish_order>>
         [] r = "neterr" -> NetworkError(i)
         [] r = "fatal" -> FatalError(i)
         [] OTHER ->
            \* lines 49-52, then fetch_chapter_content lines 187-205
            /\ permits' = permits + 1
            /\ holding' = [holding EXCEPT ![i] = FALSE]
            /\ fetched' = [fetched EXCEPT ![i] = BodyOf(r)]
            /\ IF BodyOf(r) = EmptyBody \/ select_content(BodyOf(r)) = None
               THEN Finish(i, None)
               ELSE /\ pc' = [pc EXCEPT ![i] = "write"]
                    /\ UNCHANGED <<results, completed_count, progress,
                                   finish_order>>
            /\ UNCHANGED <<attempt, sleeps>>
    /\ UNCHANGED <<gets, cache, mainVars>>

\* A rate-limit path that goes to the next pass without leaving the
\* semaphore block.
Wake429KeepsPermit(i) ==
    /\ mainpc = "gather"
    /\ pc[i] = "sleep429"
    /\ NextAttempt(i)
    /\ UNCHANGED <<permits, holding, gets, outcomes, sleeps, cache, mainVars>>

\* _fetch_url, lines 46-47: the rate-limit sleep ends, the block is left,
\* the loop continues.
Wake429(i) ==
    /\ mainpc = "gather"
    /\ pc[i] = "sleep429"
    /\ permits' = permits + 1
    /\ holding' = [holding EXCEPT ![i] = FALSE]
    /\ NextAttempt(i)
    /\ UNCHANGED <<gets, outcomes, sleeps, cache, mainVars>>

\* _fetch_url, line 58: the sleep after a network error ends.
WakeErr(i) ==
    /\ mainpc = "gather"
    /\ pc[i] = "sleepErr"
    /\ NextAttempt(i)
    /\ UNCHANGED <<permits, holding, gets, outcomes, sleeps, cache, mainVars>>

\* The fragment written to the cache by a call that then returns None.
WriteCacheThenNone(i) ==
    /\ mainpc = "gather"
    /\ pc[i] = "write"
    /\ cache' = [cache EXCEPT ![selected_chapters[i].url] =
                     select_content(fetched[i])]
    /\ Finish(i, None)
    /\ UNCHANGED <<attempt, permits, holding, gets, outcomes, sleeps, fetched,
                   mainVars>>

\* The fragment returned without being written to the cache.
WriteCacheSkipped(i) ==
    /\ mainpc = "gather"
    /\ pc[i] = "write"
    /\ Finish(i, select_content(fetched[i]))
    /\ UNCHANGED <<attempt, permits, holding, gets, outcomes, sleeps, fetched,
                   cache, mainVars>>

\* fetch_chapter_content, lines 205-208: the fragment is written to the
\* cache file and returned.
WriteCache(i) ==
    /\ mainpc = "gather"
    /\ pc[i] = "write"
    /\ LET clean_content == select_content(fetched[i])
       IN /\ cache' = [cache EXCEPT ![selected_chapters[i].url] = clean_content]
          /\ Finish(i, clean_content)
    /\ UNCHANGED <<attempt, permits, holding, gets, outcomes, sleeps, fetched,
                   mainVars>>

\* The loop that forgets to record the failures.
RECURSIVE PartitionLosing(_, _, _, _, _)
PartitionLosing(i, res, sel, dd, fc) ==
    IF i > Len(sel) THEN [downloaded_data |-> dd, failed_chapters |-> fc]
    ELSE IF res[i] = <<>>
         THEN PartitionLosing(i + 1, res, sel, dd, fc)
         ELSE PartitionLosing(i + 1, res, sel, Append(dd, res[i][1]), fc)

\* The loop that appends every result, None included, to the downloaded data.
RECURSIVE PartitionBoth(_, _, _, _, _)
PartitionBoth(i, res, sel, dd, fc) ==
    IF i > Len(sel) THEN [downloaded_data |-> dd, failed_chapters |-> fc]
    ELSE IF res[i] = <<>>
         THEN PartitionBoth(i + 1, res, sel,
                  Append(dd, [title |-> sel[i].name, content |-> None]),
                  Append(fc, sel[i].name))
         ELSE PartitionBoth(i + 1, res, sel, Append(dd, res[i][1]), fc)

\* download_workflow, lines 62-69: the loop that separates successes from
\* failures, from position i on.
RECURSIVE Partition(_, _, _, _, _)
Partition(i, res, sel, dd, fc) ==
    IF i > Len(sel) THEN [downloaded_data |-> dd, failed_chapters |-> fc]
    ELSE IF res[i] = <<>>
         THEN Partition(i + 1, res, sel, dd, Append(fc, sel[i].name))
         ELSE Partition(i + 1, res, sel, Append(dd, res[i][1]), fc)

\* A safety stop that tolerates one missing chapter.
SafetyStopLenient(fc) == Len(fc) > 1

\* download_workflow, line 72: the safety stop.
SafetyStop(fc) == fc # <<>>

\* download_workflow, lines 58-85: gather returns, the results are
\* partitioned and the batch is halted or goes on to packaging.
Join ==
    /\ mainpc = "gather"
    /\ \A i \in Tasks : pc[i] = "done"
    /\ LET p == Partition(1, results, selected_chapters, <<>>, <<>>)
       IN /\ downloaded_data' = p.downloaded_data
          /\ failed_chapters' = p.failed_chapters
          /\ mainpc' = IF SafetyStop(p.failed_chapters) THEN "halted"
                       ELSE "build"
    /\ cache_at_join' = cache
    /\ UNCHANGED <<cache, taskVars, library, parse, runs, selected_chapters,
                   epub_args,
                   epub_raised, evicted, prev>>

\* The clean-up placed where it runs whether or not create_epub raised.
CreateEpubThenAlwaysClean(ok) ==
    /\ mainpc = "build"
    /\ epub_args' = <<downloaded_data>>
    /\ epub_raised' = ~ok
    /\ mainpc' = "cleanup"
    /\ UNCHANGED <<cache, taskVars, library, parse, runs, selected_chapters,
                   downloaded_data,
                   failed_chapters, evicted, cache_at_join, prev>>

\* download_workflow, lines 87-97: create_epub is called with the
\* downloaded data; it returns, or raises and the clean-up is skipped.
CreateEpub(ok) ==
    /\ mainpc = "build"
    /\ epub_args' = <<downloaded_data>>
    /\ epub_raised' = ~ok
    /\ mainpc' = IF ok THEN "cleanup" ELSE "pkgfailed"
    /\ UNCHANGED <<cache, taskVars, library, parse, runs, selected_chapters,
                   downloaded_data,
                   failed_chapters, evicted, cache_at_join, prev>>

\* A clear_cache_for_url that deletes nothing.
clear_cache_noop(c, url) == c

\* AsyncScraper.clear_cache_for_url: the file of the url is deleted if it
\* exists.
clear_cache_for_url(c, url) ==
    [c EXCEPT ![url] = NoEntry]

RECURSIVE ClearAll(_, _, _)
ClearAll(c, sel, k) ==
    IF k > Len(sel) THEN c
    ELSE ClearAll(clear_cache_for_url(c, sel[k].url), sel, k + 1)

\* download_workflow, lines 91-94: the cache entry of every selected
\* chapter is cleared.
Cleanup ==
    /\ mainpc = "cleanup"
    /\ cache' = ClearAll(cache, selected_chapters, 1)
    /\ evicted' = {selected_chapters[k].url : k \in 1..Len(selected_chapters)}
    /\ mainpc' = "completed"
    /\ UNCHANGED <<taskVars, library, parse, runs, selected_chapters,
                   downloaded_data,
                   failed_chapters, epub_args, epub_raised, cache_at_join,
                   prev>>

\* The process ends while the tasks run: asyncio.run cancels every task
\* that is not finished (each leaves its "async with" block), and the next
\* start builds a new AsyncScraper.
ProcessEnds(how) ==
    /\ mainpc' = how
    /\ pc' = [i \in Pos |-> IF pc[i] \in {"done", "unused"} THEN pc[i]
                             ELSE "cancelled"]
    /\ permits' = MAX_CONCURRENT_REQUESTS
    /\ holding' = [i \in Pos |-> FALSE]
    /\ UNCHANGED <<attempt, gets, outcomes, sleeps, fetched, results,
                   completed_count, progress, finish_order, runs,
                   selected_chapters, downloaded_data,
                   failed_chapters, epub_args, epub_raised, evicted,
                   cache_at_join, prev, library, parse>>

\* fetch_chapter_content, lines 181-183: the cache file exists but opening
\* or reading it raises (OSError, UnicodeDecodeError). Nothing catches it:
\* it leaves fetch_with_progress, asyncio.gather (main.py:58) and
\* download_workflow.
CacheReadFails(i) ==
    /\ mainpc = "gather"
    /\ pc[i] = "start"
    /\ cache[selected_chapters[i].url] # NoEntry
    /\ ProcessEnds("crashed")
    /\ UNCHANGED cache

\* fetch_chapter_content, lines 205-206: opening the cache file for writing
\* raises (the file is not created), or the write raises after the file was
\* created. Nothing catches it.
CacheWriteFails(i, created) ==
    /\ mainpc = "gather"
    /\ pc[i] = "write"
    /\ cache' = IF created
                THEN [cache EXCEPT ![selected_chapters[i].url] = ""]
                ELSE cache
    /\ ProcessEnds("crashed")

\* main.py:246-249: the user stops the program (KeyboardInterrupt) while
\* the tasks run and no cache file is being written.
Interrupt ==
    /\ mainpc = "gather"
    /\ \A i \in Tasks : pc[i] # "write"
    /\ ProcessEnds("interrupted")
    /\ UNCHANGED cache

\* fetch_chapter_content, lines 205-206, stopped between
\* open(cache_path, "w") and the end of the write: the file is written in
\* place, so it stays as far as it got.
InterruptDuringWrite(i, left) ==
    /\ mainpc = "gather"
    /\ pc[i] = "write"
    /\ cache' = [cache EXCEPT ![selected_chapters[i].url] = left]
    /\ ProcessEnds("interrupted")

\* range(last_count, current_count), main.py:135.
RangeSeq(a, b) == [k \in 1..(b - a) |-> a + k - 1]

\* check_updates, lines 116-147: the site lists more chapters than the
\* stored count, the user accepts, and download_workflow is called with the
\* indices of the new chapters.
CheckUpdates ==
    /\ library.status = "idle"
    /\ Len(chapters) > library.last_count
    /\ BeginBatch(RangeSeq(library.last_count, Len(chapters)))
    /\ library' = [library EXCEPT !.status = "downloading"]
    /\ UNCHANGED parse

\* check_updates, line 150: download_workflow has returned (it raises
\* nothing: lines 74-80 return, lines 96-97 catch) and the stored count is
\* set to the current count.
AddNovel ==
    /\ library.status = "downloading"
    /\ mainpc \in {"noselection", "halted", "completed", "pkgfailed"}
    /\ library' = [last_count |-> Len(chapters), status |-> "added"]
    /\ UNCHANGED <<cache, taskVars, runs, mainpc, selected_chapters,
                   downloaded_data, failed_chapters, epub_args, epub_raised,
                   evicted, cache_at_join, prev, parse>>

Next ==
    \/ \E indices \in Selections : StartBatch(indices)
    \/ \E i \in Pos : CheckCache(i)
    \/ \E i \in Pos : Acquire(i)
    \/ \E i \in Pos : \E r \in Responses : Respond(i, r)
    \/ \E i \in Pos : Wake429(i)
    \/ \E i \in Pos : WakeErr(i)
    \/ \E i \in Pos : WriteCache(i)
    \/ Join
    \/ \E ok \in BOOLEAN : CreateEpub(ok)
    \/ Cleanup

Spec == Init /\ [][Next]_vars

\* The program on a machine whose cache files can fail and whose user can
\* stop it.
NextFaults ==
    \/ Next
    \/ \E i \in Pos : CacheReadFails(i)
    \/ \E i \in Pos : \E created \in BOOLEAN : CacheWriteFails(i, created)
    \/ Interrupt
    \/ \E i \in Pos : \E left \in TruncatedFiles : InterruptDuringWrite(i, left)

SpecFaults == Init /\ [][NextFaults]_vars

\* The only download_workflow call of a session.
StartOnce(indices) ==
    /\ runs = 0
    /\ StartBatch(indices)

\* One step of a batch that has started.
BatchStep ==
    \/ \E i \in Pos : CheckCache(i)
    \/ \E i \in Pos : Acquire(i)
    \/ \E i \in Pos : \E r \in Responses : Respond(i, r)
    \/ \E i \in Pos : Wake429(i)
    \/ \E i \in Pos : WakeErr(i)
    \/ \E i \in Pos : WriteCache(i)
    \/ Join
    \/ \E ok \in BOOLEAN : CreateEpub(ok)
    \/ Cleanup

\* One download_workflow call of a session that starts on any cache
\* directory, with the order in which the tasks finish kept.
InitOrder == \E files \in CacheDirs : InitState(0, files, TRUE, NotAsked)

NextOrder ==
    \/ \E indices \in Selections : StartOnce(indices)
    \/ BatchStep

SpecOrder == InitOrder /\ [][NextOrder]_vars

\* One download_workflow call under the scheduling the event loop and the
\* network give: a task that is ready to run is run (the cache check, the
\* cache write, the return from a sleep after its delay), a waiter on the
\* semaphore is woken when a permit stays free, every session.get is
\* answered or times out (REQUEST_TIMEOUT), and gather returns once every
\* task has finished.
TaskStep(i) ==
    \/ CheckCache(i)
    \/ Acquire(i)
    \/ \E r \in Responses : Respond(i, r)
    \/ Wake429(i)
    \/ WakeErr(i)
    \/ WriteCache(i)

Fairness ==
    /\ \A i \in Pos : WF_vars(TaskStep(i))
    /\ WF_vars(Join)

InitLive == \E files \in CacheDirs : InitState(0, files, FALSE, NotAsked)

SpecLive == InitLive /\ [][NextOrder]_vars /\ Fairness

\* download_workflow, lines 26-28: the string typed at the prompt is handed
\* to parse_chapter_selection with len(chapters).
ParseSelection ==
    /\ mainpc = "idle"
    /\ parse.out = <<>>
    /\ parse' = [parse EXCEPT !.out =
                     <<parse_chapter_selection(parse.selection, parse.total)>>]
    /\ UNCHANGED <<cache, taskVars, runs, mainpc, selected_chapters,
                   downloaded_data, failed_chapters, epub_args, epub_raised,
                   evicted, cache_at_join, prev, library>>

\* download_workflow, lines 32-58, with the indices the parser returned.
SelectChapters ==
    /\ mainpc = "idle"
    /\ parse.out # <<>>
    /\ ~parse.out[1].raised
    /\ parse.total = Len(chapters)
    /\ BeginBatch(parse.out[1].indices)
    /\ UNCHANGED <<library, parse>>

\* The ValueError of the parser leaves download_workflow (line 28 is in no
\* try block), search_mode and main.
SelectionRaises ==
    /\ mainpc = "idle"
    /\ parse.out # <<>>
    /\ parse.out[1].raised
    /\ ProcessEnds("crashed")
    /\ UNCHANGED cache

\* The selection prompt of one download_workflow call, for any string up to
\* MaxLen characters and any number of chapters up to NumChapters.
InitParse ==
    \E str \in SelectionStrings : \E n \in 0..NumChapters :
        InitState(0, [u \in Urls |-> NoEntry], FALSE,
                  [selection |-> str, total |-> n, out |-> <<>>])

NextParse ==
    \/ ParseSelection
    \/ SelectChapters
    \/ SelectionRaises

SpecParse == InitParse /\ [][NextParse]_vars

\* check_updates for one favorite whose stored count is any count up to
\* the number of chapters the site lists.
InitUpdates ==
    \E lc \in 0..NumChapters :
        InitState(lc, [u \in Urls |-> NoEntry], FALSE, NotAsked)

NextUpdates ==
    \/ CheckUpdates
    \/ \E i \in Pos : CheckCache(i)
    \/ \E i \in Pos : Acquire(i)
    \/ \E i \in Pos : \E r \in Responses : Respond(i, r)
    \/ \E i \in Pos : Wake429(i)
    \/ \E i \in Pos : WakeErr(i)
    \/ \E i \in Pos : WriteCache(i)
    \/ Join
    \/ \E ok \in BOOLEAN : CreateEpub(ok)
    \/ Cleanup
    \/ AddNovel

SpecUpdates == InitUpdates /\ [][NextUpdates]_vars

TypeOK ==
    /\ permits \in 0..MAX_CONCURRENT_REQUESTS
    /\ completed_count \in 0..NumChapters
    /\ runs \in 0..MaxRuns

\* ------------------------------------------------------------------ claims
\* A batch has reached its completion decision and download_workflow has
\* returned.
BatchReturned == mainpc \in {"halted", "completed", "pkgfailed"}
\* The urls of the batch.
BatchUrls == {selected_chapters[k].url : k \in Tasks}
\* The tasks with a session.get in flight.
InFlight == {i \in Tasks : pc[i] = "get"}

\* C1 Completion gating: once a batch has returned, create_epub was invoked
\* if and only if no chapter of the batch ended without content; it is never
\* invoked while the tasks still run. (An empty selection returns at line 36
\* before a batch exists.)
C1_CompletionGating ==
    /\ BatchReturned => ((epub_args # <<>>) <=> (FailedPositions = {}))
    /\ mainpc \in {"idle", "noselection", "gather"} => epub_args = <<>>

\* C1 witness: a halted batch (no packaging) was re-run and then packaged.
C1_Witness ==
    /\ prev.outcome = "halted"
    /\ mainpc = "completed"
    /\ epub_args # <<>>
    /\ FailedPositions = {}

\* C2 Complete artifact: the list create_epub is given holds exactly one
\* {title, content} record per selected chapter, in selection order, each
\* with content present.
C2_CompleteArtifact ==
    epub_args # <<>> =>
        LET l == epub_args[1]
        IN /\ Len(l) = Len(selected_chapters)
           /\ \A k \in 1..Len(l) :
                 /\ l[k].title = selected_chapters[k].name
                 /\ l[k].content # None
                 /\ results[k] = <<l[k]>>

\* C2 witness: create_epub was given a list of more than one chapter, some
\* read from the cache and some fetched.
C2_Witness ==
    /\ epub_args # <<>>
    /\ Len(epub_args[1]) > 1
    /\ \E i \in Tasks : gets[i] = 0
    /\ \E i \in Tasks : gets[i] > 0

\* C3 Eviction ordering: clear_cache_for_url has been called in a batch only
\* if the batch had no failure and create_epub returned without raising;
\* after a halted batch and after a batch whose create_epub raised, every
\* cache entry that existed when the download phase ended still exists.
C3_EvictionOrdering ==
    /\ evicted # {} =>
          /\ mainpc = "completed"
          /\ FailedPositions = {}
          /\ epub_args # <<>>
          /\ ~epub_raised
    /\ mainpc \in {"halted", "pkgfailed"} =>
          /\ evicted = {}
          /\ \A u \in Urls :
                cache_at_join[u] # NoEntry => cache[u] = cache_at_join[u]

\* C3 witness: create_epub raised and the entries of the batch are still
\* in the cache.
C3_Witness ==
    /\ mainpc = "pkgfailed"
    /\ epub_raised
    /\ \A u \in BatchUrls : cache[u] # NoEntry

\* C4 Partition: after the join, succeeded plus failed is the batch size and
\* every selected chapter is in exactly one of the two lists, once.
Count(seq, x) == Cardinality({k \in 1..Len(seq) : seq[k] = x})
Titles(dd) == [k \in 1..Len(dd) |-> dd[k].title]
C4_Partition ==
    mainpc \in {"halted", "build", "cleanup", "completed", "pkgfailed"} =>
        /\ Len(downloaded_data) + Len(failed_chapters)
               = Len(selected_chapters)
        /\ \A i \in Tasks :
              LET n == selected_chapters[i].name
              IN /\ Count(Titles(downloaded_data), n)
                      + Count(failed_chapters, n) = 1
                 /\ (Count(failed_chapters, n) = 1) <=> (results[i] = <<>>)

\* C4 witness: a joined batch with both lists non-empty.
C4_Witness ==
    /\ mainpc = "halted"
    /\ downloaded_data # <<>>
    /\ failed_chapters # <<>>
    /\ Len(selected_chapters) = NumChapters

\* C5 Concurrency bound: at most MAX_CONCURRENT_REQUESTS session.get calls
\* are in flight at the same time.
C5_ConcurrencyBound ==
    Cardinality(InFlight) <= MAX_CONCURRENT_REQUESTS

\* C5 witness: a batch larger than the pool, all of it missing the cache,
\* with the pool exhausted and a task waiting for a permit.
C5_Witness ==
    /\ Len(selected_chapters) > MAX_CONCURRENT_REQUESTS
    /\ \A u \in BatchUrls : cache[u] = NoEntry
    /\ Cardinality(InFlight) = MAX_CONCURRENT_REQUESTS
    /\ \E i \in Tasks : pc[i] = "acquire"

\* The outcomes of an attempt after which the retry loop sleeps.
SleepOutcomes == {"429", "neterr"}
\* _fetch_url was entered by the task and has returned.
FetchReturned(i) == fetched[i] # "pending"

\* C6 Retry budget: one call of _fetch_url issues at most MAX_RETRIES
\* session.get calls; a call all of whose attempts ended in a 429 or a
\* network error has issued exactly MAX_RETRIES of them and returned None.
C6_RetryBudget ==
    \A i \in Tasks :
        /\ gets[i] <= MAX_RETRIES
        /\ gets[i] = Len(outcomes[i]) + (IF pc[i] = "get" THEN 1 ELSE 0)
        /\ ( /\ FetchReturned(i)
             /\ \A k \in 1..Len(outcomes[i]) : outcomes[i][k] \in SleepOutcomes )
           => /\ gets[i] = MAX_RETRIES
              /\ fetched[i] = None
              /\ pc[i] = "done"
              /\ results[i] = <<>>

\* C6 witness: every attempt of a call ended in a network error; the call
\* returned None after MAX_RETRIES attempts.
C6_Witness ==
    \E i \in Tasks :
        /\ pc[i] = "done"
        /\ fetched[i] = None
        /\ gets[i] = MAX_RETRIES
        /\ Len(outcomes[i]) = MAX_RETRIES
        /\ \A k \in 1..Len(outcomes[i]) : outcomes[i][k] = "neterr"

\* C7 Rate-limit backoff: the sleep after a 429 on attempt k (from 1) lasts
\* RETRY_DELAY * k, the sleep after a network error lasts RETRY_DELAY, every
\* attempt after the first is preceded by the sleep of the attempt before
\* it, and a call answered 429 on all attempts but the last and 2xx on the
\* last returns that body after MAX_RETRIES - 1 strictly increasing sleeps.
Is2xx(r) == r \in {"200", "200_notag", "200_empty"}
C7_RateLimitBackoff ==
    \A i \in Tasks :
        /\ Len(sleeps[i]) =
              Cardinality({k \in 1..Len(outcomes[i]) :
                              outcomes[i][k] \in SleepOutcomes})
        /\ \A k \in 1..Len(sleeps[i]) :
              sleeps[i][k] = IF outcomes[i][k] = "429" THEN RETRY_DELAY * k
                             ELSE RETRY_DELAY
        /\ pc[i] = "get" => Len(sleeps[i]) = gets[i] - 1
        /\ ( /\ Len(outcomes[i]) = MAX_RETRIES
             /\ \A k \in 1..(MAX_RETRIES - 1) : outcomes[i][k] = "429"
             /\ Is2xx(outcomes[i][MAX_RETRIES]) )
           => /\ fetched[i] = BodyOf(outcomes[i][MAX_RETRIES])
              /\ Len(sleeps[i]) = MAX_RETRIES - 1
              /\ \A k \in 1..(Len(sleeps[i]) - 1) :
                    sleeps[i][k] < sleeps[i][k + 1]

\* C7 witness: 429 on attempts 1 and 2, success on attempt 3; the body was
\* returned after two sleeps.
C7_Witness ==
    \E i \in Tasks :
        /\ outcomes[i] = <<"429", "429", "200">>
        /\ fetched[i] = PageWithContent
        /\ Len(sleeps[i]) = 2

\* C8 Backoff sleeps do not hold a permit: a task sleeping after a 429 or
\* after a network error is not inside "async with self.semaphore".
C8_NoPermitWhileSleeping ==
    \A i \in Tasks : pc[i] \in {"sleep429", "sleepErr"} => ~holding[i]

\* The run before this one called fetch_chapter_content for the url and
\* nothing was evicted since.
CalledBeforeNoEviction(u) ==
    /\ prev.outcome \in {"halted", "pkgfailed"}
    /\ u \in {prev.selected[k].url : k \in 1..Len(prev.selected)}

ResumableRerun ==
    /\ mainpc = "halted" =>
          \A i \in Tasks :
              results[i] # <<>> => cache[selected_chapters[i].url] # NoEntry
    /\ prev.outcome = "halted" =>
          /\ selected_chapters = prev.selected
          /\ \A i \in Tasks :
                LET u == selected_chapters[i].url
                IN /\ gets[i] > 0 => u \in prev.failed
                   /\ (u \notin prev.failed /\ pc[i] = "done") =>
                         (results[i] # <<>> /\ fetched[i] = "pending")
          /\ (BatchReturned /\ FailedPositions = {}) => epub_args # <<>>

\* C10 as stated: ... and after the re-run was packaged, the cache entry of
\* every chapter of the batch has been evicted.
C10_ResumableRerunAlwaysEvicts ==
    /\ ResumableRerun
    /\ (prev.outcome = "halted" /\ BatchReturned /\ epub_args # <<>>) =>
          \A u \in BatchUrls : cache[u] = NoEntry

\* C10 amended: ... and after the re-run was packaged and create_epub
\* returned without raising, the cache entry of every chapter of the batch
\* has been evicted; when create_epub raised, every entry is still there.
C10_ResumableRerun ==
    /\ ResumableRerun
    /\ (prev.outcome = "halted" /\ BatchReturned /\ epub_args # <<>>) =>
          IF epub_raised
          THEN \A u \in BatchUrls : cache[u] # NoEntry
          ELSE \A u \in BatchUrls : cache[u] = NoEntry

\* C10 witness: a batch halted on some chapters and kept others; its re-run
\* fetched only the missing ones, was packaged, and the cache was cleared.
C10_Witness ==
    /\ prev.outcome = "halted"
    /\ prev.failed # {}
    /\ prev.failed # BatchUrls
    /\ mainpc = "completed"
    /\ \A i \in Tasks : (gets[i] > 0) <=> (selected_chapters[i].url \in prev.failed)
    /\ \A u \in BatchUrls : cache[u] = NoEntry

\* C11 Failures never unwind the batch: no fault raised inside a chapter
\* task (a failed cache read or cache write included) leaves asyncio.gather,
\* so no batch ends by an exception with tasks cut short before the
\* completion decision.
C11_FailuresNeverUnwind ==
    /\ mainpc # "crashed"
    /\ (\E i \in Tasks : pc[i] = "cancelled") => mainpc = "interrupted"

\* C12 No partial-write exposure: after the process was stopped during the
\* write of a cache entry, no read of the cache returns a truncated or
\* empty payload as a hit, and the entry is absent or complete.
C12_NoPartialWriteExposure ==
    /\ mainpc = "interrupted" => \A u \in Urls : cache[u] \notin TruncatedFiles
    /\ prev.outcome = "interrupted" =>
          \A i \in Tasks :
              (pc[i] = "done" /\ fetched[i] = "pending" /\ results[i] # <<>>)
                  => results[i][1].content \notin TruncatedFiles

\* C13 Favorites count update only on success: check_updates stores the
\* current chapter count (add_novel) only after a download that completed;
\* after a halted batch or a failed packaging step the stored count is the
\* one from before, so the new chapters are reported again.
C13_CountUpdatedOnlyOnSuccess ==
    /\ library.status = "added" => mainpc = "completed"
    /\ (library.status # "downloading" /\ mainpc \in {"halted", "pkgfailed"})
          => library.last_count < Len(chapters)

\* The position of the chapter called `name` in the selection.
PositionOf(name) == CHOOSE i \in Tasks : selected_chapters[i].name = name
\* The sequence of chapter names follows the order of the selection.
InSelectionOrder(names) ==
    \A a, b \in 1..Len(names) :
        a < b => PositionOf(names[a]) < PositionOf(names[b])

\* C14 Order preservation: in whatever order the tasks finish, the result at
\* position i belongs to the i-th selected chapter, and after the join the
\* succeeded list and the failed list each follow the order of the
\* selection.
C14_OrderPreservation ==
    /\ \A i \in Tasks :
          results[i] # <<>> =>
              /\ pc[i] = "done"
              /\ results[i][1].title = selected_chapters[i].name
    /\ mainpc \in {"halted", "build", "cleanup", "completed", "pkgfailed"} =>
          /\ InSelectionOrder(Titles(downloaded_data))
          /\ InSelectionOrder(failed_chapters)

\* C14 witness: the last selected chapter finished first, the first one
\* last, and the succeeded list holds them in selection order.
C14_Witness ==
    /\ mainpc = "completed"
    /\ Len(selected_chapters) = NumChapters
    /\ finish_order.seq # <<>>
    /\ finish_order.seq[1] = NumChapters
    /\ finish_order.seq[NumChapters] = 1
    /\ Titles(downloaded_data) = [k \in 1..NumChapters |-> chapters[k].name]

\* C15 Fatal errors are not retried: an attempt of _fetch_url answered by a
\* fatal error is the last one of its call, whatever its number; the call
\* returns None at once, with no sleep after it and no further session.get.
C15_FatalNotRetried ==
    \A i \in Tasks :
        \A k \in 1..Len(outcomes[i]) :
            outcomes[i][k] = "fatal" =>
                /\ k = Len(outcomes[i])
                /\ gets[i] = k
                /\ Len(sleeps[i]) = k - 1
                /\ pc[i] = "done"
                /\ fetched[i] = None
                /\ results[i] = <<>>
                /\ ~holding[i]

\* C15 witness: one call hit the fatal error on its first attempt, another
\* on its last after a rate limit and a network error.
C15_Witness ==
    /\ Len(selected_chapters) = NumChapters
    /\ outcomes[1] = <<"fatal">>
    /\ outcomes[NumChapters] = <<"429", "neterr", "fatal">>
    /\ mainpc = "halted"

\* The attempts of the task's _fetch_url call all ended in a 429 or a
\* network error and the budget is spent.
Exhausted(i) ==
    /\ Len(outcomes[i]) = MAX_RETRIES
    /\ \A k \in 1..Len(outcomes[i]) : outcomes[i][k] \in SleepOutcomes
\* The answer of the task's last attempt, "none" before the first answer.
LastOutcome(i) ==
    IF outcomes[i] = <<>> THEN "none" ELSE outcomes[i][Len(outcomes[i])]
\* The task has finished without content.
ResultAbsent(i) == pc[i] = "done" /\ results[i] = <<>>

\* C16 (as stated) Only exhaustion or a fatal error yields a missing result:
\* a finished task has no content only if its fetch spent the retry budget
\* or met a fatal error, and a task one of whose attempts returned a 2xx
\* answer with a body has content.
C16_OnlyExhaustionOrFatal ==
    \A i \in Tasks :
        /\ ResultAbsent(i) => (Exhausted(i) \/ LastOutcome(i) = "fatal")
        /\ (pc[i] = "done" /\ LastOutcome(i) \in {"200", "200_notag"})
              => results[i] # <<>>

\* C16 (amended) A finished task has no content only if its fetch spent the
\* retry budget, met a fatal error, or was answered 2xx with an empty body
\* or with a page in which no content tag is found; a task answered 2xx
\* with a page that holds a content tag has that tag's content.
C16_MissingResultCauses ==
    \A i \in Tasks :
        /\ ResultAbsent(i) =>
              \/ Exhausted(i)
              \/ LastOutcome(i) \in {"fatal", "200_empty", "200_notag"}
        /\ (pc[i] = "done" /\ LastOutcome(i) = "200") =>
              /\ results[i] # <<>>
              /\ results[i][1].content = "text"

\* C16 witness: a joined batch in which one page had no content tag (no
\* result, neither exhausted nor fatal) and another page had one.
C16_Witness ==
    /\ mainpc = "halted"
    /\ \E i, j \in Tasks :
          /\ LastOutcome(i) = "200_notag"
          /\ ResultAbsent(i)
          /\ LastOutcome(j) = "200"
          /\ results[j] # <<>>

\* The task returned from fetch_chapter_content at the cache check.
CacheHit(i) == pc[i] = "done" /\ fetched[i] = "pending"
\* The task is inside _fetch_url or past it, on the way to the cache write.
Fetching(i) == pc[i] \in {"acquire", "get", "sleep429", "sleepErr", "write"}

\* C17 Cache hits bypass the permit pool: a task whose url has a cache entry
\* can take its step whatever the number of free permits, never enters
\* _fetch_url, and finishes with the cached content, no session.get and no
\* permit.
C17_CacheHitBypassesPool ==
    \A i \in Tasks :
        LET u == selected_chapters[i].url
        IN /\ (mainpc = "gather" /\ pc[i] = "start" /\ cache[u] # NoEntry)
                 => ENABLED CheckCache(i)
           /\ (Fetching(i) /\ pc[i] # "write") => cache[u] = NoEntry
           /\ CacheHit(i) =>
                 /\ gets[i] = 0
                 /\ outcomes[i] = <<>>
                 /\ ~holding[i]
                 /\ results[i] # <<>>
                 /\ mainpc = "gather" => results[i][1].content = cache[u]

\* C17 witness: every permit is held by other tasks and a task has
\* finished on a cache hit.
C17_Witness ==
    /\ mainpc = "gather"
    /\ permits = 0
    /\ \E i \in Tasks : CacheHit(i)
    /\ Cardinality({j \in Tasks : holding[j]}) = MAX_CONCURRENT_REQUESTS

\* The tasks of the batch that have finished.
Finished == {i \in Tasks : pc[i] = "done"}

\* C18 Progress counting: the completed count is the number of finished
\* tasks, whether they have content or not; the k-th progress line reports
\* k out of the batch size, so the count starts at 0, goes up by exactly 1
\* per finished task, never goes down, never passes the total and reports
\* no value twice; it equals the total exactly when every task has
\* finished, as it has once the batch is joined.
C18_ProgressCounting ==
    /\ completed_count = Cardinality(Finished)
    /\ completed_count <= Len(selected_chapters)
    /\ Len(progress) = completed_count
    /\ \A k \in 1..Len(progress) : progress[k] = <<k, Len(selected_chapters)>>
    /\ (completed_count = Len(selected_chapters)) <=> (Finished = Tasks)
    /\ mainpc \in {"halted", "build", "cleanup", "completed", "pkgfailed"} =>
          completed_count = Len(selected_chapters)

\* C18 witness: a joined batch of full size in which a task without content
\* and a task with content were both counted.
C18_Witness ==
    /\ mainpc = "halted"
    /\ Len(selected_chapters) = NumChapters
    /\ completed_count = NumChapters
    /\ progress[NumChapters] = <<NumChapters, NumChapters>>
    /\ \E i, j \in Tasks : results[i] = <<>> /\ results[j] # <<>>

\* The tasks that are inside the "async with self.semaphore" block.
Holders == {i \in Tasks : holding[i]}

\* C20 Permit conservation: the free permits plus the tasks holding one are
\* always MAX_CONCURRENT_REQUESTS; a task holds a permit exactly while its
\* attempt is inside the semaphore block, so every way out of an attempt
\* (2xx, 429, network error, fatal error) gives the permit back, and
\* whenever no batch is running all the permits are free.
C20_PermitConservation ==
    /\ permits + Cardinality(Holders) = MAX_CONCURRENT_REQUESTS
    /\ \A i \in Pos :
          holding[i] <=> (i \in Tasks /\ pc[i] \in {"get", "sleep429"})
    /\ mainpc # "gather" => permits = MAX_CONCURRENT_REQUESTS
    /\ (\A i \in Tasks : pc[i] = "done") => permits = MAX_CONCURRENT_REQUESTS

\* C20 witness: a joined batch whose attempts ended in each of the four
\* ways, with the pool full again.
C20_Witness ==
    /\ mainpc = "halted"
    /\ Len(selected_chapters) = NumChapters
    /\ outcomes[1] = <<"429", "neterr", "fatal">>
    /\ outcomes[NumChapters] = <<"neterr", "200">>
    /\ permits = MAX_CONCURRENT_REQUESTS

\* C19 Batch termination: when every session.get is answered or times out
\* and the scheduling is fair, a batch that has started reaches its
\* completion decision with every task finished; no task waits for a
\* permit forever.
C19_BatchTermination ==
    (mainpc = "gather") ~>
        (mainpc \in {"halted", "build"} /\ \A i \in Tasks : pc[i] = "done")

\* C19 witness: a joined batch larger than the pool, every task of which
\* went to the network, one of them through a rate-limit sleep and a
\* network error.
C19_Witness ==
    /\ mainpc \in {"halted", "build"}
    /\ Len(selected_chapters) > MAX_CONCURRENT_REQUESTS
    /\ \A i \in Tasks : gets[i] > 0 /\ pc[i] = "done"
    /\ \E i \in Tasks : outcomes[i] = <<"429", "neterr", "429">>

\* The batch is running or has been joined, and the clean-up has not run.
BeforeCleanup == mainpc \in {"gather", "halted", "build", "pkgfailed"}

\* C21 Failures are never cached: while a batch runs and after it is
\* joined, a chapter whose result is None has no cache entry, and an entry
\* that was not there when the batch started belongs to a task that
\* returned exactly that content; in the re-run of a halted batch every
\* chapter that had failed misses the cache and goes to the network again.
C21_FailuresNeverCached ==
    \A i \in Tasks :
        LET u == selected_chapters[i].url
        IN /\ (BeforeCleanup /\ ResultAbsent(i)) => cache[u] = NoEntry
           /\ (mainpc = "gather" /\ cache[u] # NoEntry
                  /\ cache_at_join[u] = NoEntry) =>
                 /\ pc[i] = "done"
                 /\ results[i] = <<[title |-> selected_chapters[i].name,
                                    content |-> cache[u]]>>
           /\ (prev.outcome = "halted" /\ u \in prev.failed) =>
                 /\ ~CacheHit(i)
                 /\ pc[i] = "start" => cache[u] = NoEntry
                 /\ pc[i] = "done" => gets[i] > 0

\* C21 witness: the re-run of a halted batch in which the chapter that had
\* failed was fetched again, its page had no content tag, and it still has
\* no cache entry, while the chapter that had succeeded was a cache hit.
C21_Witness ==
    /\ prev.outcome = "halted"
    /\ mainpc = "halted"
    /\ \E i, j \in Tasks :
          /\ selected_chapters[i].url \in prev.failed
          /\ gets[i] > 0
          /\ LastOutcome(i) = "200_notag"
          /\ ResultAbsent(i)
          /\ cache[selected_chapters[i].url] = NoEntry
          /\ CacheHit(j)

\* The list is strictly increasing.
StrictlyIncreasing(seq) ==
    \A a, b \in 1..Len(seq) : a < b => seq[a] < seq[b]

\* C22 Selection indices are distinct and in range: for every selection
\* string and every total, parse_chapter_selection returns (it raises
\* nothing: malformed parts are skipped) a strictly increasing list of
\* indices in [0, total), all of 0..total-1 for a blank string; so the
\* batch holds no chapter twice.
C22_SelectionIndices ==
    /\ parse.out # <<>> =>
          LET r == parse.out[1]
          IN /\ ~r.raised
             /\ StrictlyIncreasing(r.indices)
             /\ \A k \in 1..Len(r.indices) :
                   0 <= r.indices[k] /\ r.indices[k] < parse.total
             /\ strip(parse.selection) = <<>> =>
                   r.indices = [k \in 1..parse.total |-> k - 1]
    /\ mainpc # "crashed"
    /\ \A a, b \in Tasks :
          a # b => selected_chapters[a].url # selected_chapters[b].url

====
